---- MODULE Spec2Model ----
(***************************************************************************)
(* A model of the local RAG question-answering application:                *)
(*   document_processor.py  DocumentProcessor (load, split, process)       *)
(*   vector_store.py        VectorStore (add_documents, search, stats)     *)
(*   chat_bot.py            ChatBot (generate_response, chat)              *)
(*   app.py                 RAGApp (upload_and_process_file, ask_question) *)
(*                                                                         *)
(* Text is a sequence of one-character strings.  Three specifications:     *)
(*   SplitSpec  the text splitter as a pure function of (text, size,       *)
(*              overlap);                                                  *)
(*   Spec       the application: one upload handler and one question       *)
(*              handler running concurrently over the shared collection;   *)
(*   FairSpec   Spec with weak fairness on the backend's reply and on the  *)
(*              request timeout.                                           *)
(***************************************************************************)
EXTENDS Integers, Sequences, FiniteSets, TLC

VARIABLES
    \* ---- splitter (SplitSpec) ----
    spText,      \* the document text handed to split_documents
    spSize,      \* chunk_size the DocumentProcessor was constructed with
    spOverlap,   \* chunk_overlap the DocumentProcessor was constructed with
    spChunks,    \* the chunks split_documents returned
    spPc,        \* "ready" | "done" | "rejected"
    \* ---- the persistent collection (Spec) ----
    collection,  \* the ChromaDB collection "documents": records in insertion order
    nextId,      \* number of record ids generated so far (uuid4 stand-in)
    \* ---- RAGApp.upload_and_process_file ----
    upPc,        \* "idle" | "adding" (in collection.add) | "counting" (after it,
                 \* before collection.count)
    upFile,      \* the file of the current / last upload, NoFile if none
    upBatch,     \* the records add_documents built and hands to collection.add,
                 \* empty when add_documents is not running
    upWritten,   \* how many records of upBatch the running collection.add has
                 \* written so far, 0 when none is running
    upFeedback,  \* what the last upload returned to the caller
    upBefore,    \* history: collection size when add_documents was entered
    addedTotal,  \* history: sum of the batch sizes of the add_documents calls
                 \* whose collection.add returned
    strays,      \* history: number of records left in the collection by the
                 \* collection.add calls that raised
    batches,     \* history: per add_documents call with chunks, the ids it generated
    \* ---- RAGApp.ask_question / ChatBot.chat ----
    chPc,        \* "idle" | "querying" | "generating" | "returned" | "raised"
    chQuery,     \* the question text
    chK,         \* the number of sources asked for
    chDocs,      \* relevant_docs, the list search returned
    chHits,      \* history: the collection positions of chDocs, in order
    chN,         \* history: collection size when collection.query ran
    chErr,       \* history: the retrieval stage that raised, "none" if none
    chPosted,    \* history: generate_response was called in this chat
    backend,     \* the generation backend on the request in flight: "pending",
                 \* "silent", or how the request ended
    chRetrieval, \* retrieval_time as chat measured it
    resp,        \* the dict chat returned, NoResp if none
    askOut       \* what ask_question returned to the caller

splitVars == <<spText, spSize, spOverlap, spChunks, spPc>>
upVars    == <<upPc, upFile, upBatch, upWritten, upFeedback, upBefore,
               addedTotal, strays, batches>>
chVars    == <<chPc, chQuery, chK, chDocs, chHits, chN, chErr, chPosted, backend,
               chRetrieval, resp, askOut>>
vars      == <<splitVars, collection, nextId, upVars, chVars>>

----------------------------------------------------------------------------
(* Bounds of the model.                                                    *)

\* longest document text explored by SplitSpec
MaxTextLen == 5
\* largest chunk_size / chunk_overlap explored by SplitSpec
MaxChunkSize == 3
\* record ids generated in a run of Spec
MaxIds == 3
\* largest k a question asks for
MaxK == 2

----------------------------------------------------------------------------
(* Text helpers.                                                           *)

SP == " "
NL == "\n"

\* the characters texts are built from: a letter, a blank, a line break
Alphabet == {"a", SP, NL}

\* str.strip() removes these from both ends
IsWhitespace(c) == c \in {SP, NL}

\* all texts of length at most n
TextsUpTo(n) == UNION {[1..m -> Alphabet] : m \in 0..n}

\* text[i..] (1-based), the empty text when i is past the end
Drop(text, i) == SubSeq(text, i, Len(text))

\* does sep occur in text at position i
OccursAt(text, sep, i) ==
    /\ i + Len(sep) - 1 <= Len(text)
    /\ \A j \in 1..Len(sep) : text[i + j - 1] = sep[j]

\* position of the leftmost occurrence of the non-empty sep in text, 0 if none
FindFirst(text, sep) ==
    LET hits == {i \in 1..Len(text) : OccursAt(text, sep, i)}
    IN  IF hits = {} THEN 0 ELSE CHOOSE i \in hits : \A j \in hits : i <= j

\* re.search(re.escape(sep), text) for a non-empty sep
Contains(text, sep) == FindFirst(text, sep) # 0

RECURSIVE LStrip(_)
LStrip(text) ==
    IF text # <<>> /\ IsWhitespace(Head(text)) THEN LStrip(Tail(text)) ELSE text

RECURSIVE RStrip(_)
RStrip(text) ==
    IF text # <<>> /\ IsWhitespace(text[Len(text)])
    THEN RStrip(SubSeq(text, 1, Len(text) - 1))
    ELSE text

\* str.strip()
Strip(text) == RStrip(LStrip(text))

\* separator.join(parts)
RECURSIVE Join(_, _)
Join(parts, sep) ==
    IF parts = <<>> THEN <<>>
    ELSE IF Len(parts) = 1 THEN Head(parts)
    ELSE Head(parts) \o sep \o Join(Tail(parts), sep)

\* the elements of a sequence of texts that are not the empty text
RECURSIVE NonEmpty(_)
NonEmpty(parts) ==
    IF parts = <<>> THEN <<>>
    ELSE IF Head(parts) = <<>> THEN NonEmpty(Tail(parts))
    ELSE <<Head(parts)>> \o NonEmpty(Tail(parts))

----------------------------------------------------------------------------
(* RecursiveCharacterTextSplitter, as DocumentProcessor.__init__ configures *)
(* it: length_function = len, keep_separator and strip_whitespace at their  *)
(* defaults (separator kept at the start of the piece that follows it,      *)
(* chunks stripped, empty chunks dropped).                                  *)

\* a configuration with no raw character cut as the last separator
SeparatorsNoRawCut == << <<NL, NL>>, <<NL>>, <<SP>> >>

\* separators=["\n\n", "\n", " ", ""]
Separators == << <<NL, NL>>, <<NL>>, <<SP>>, <<>> >>

\* re.split(sep, text): the pieces between the non-overlapping occurrences of
\* the non-empty sep, leftmost first
RECURSIVE Pieces(_, _)
Pieces(text, sep) ==
    LET i == FindFirst(text, sep)
    IN  IF i = 0 THEN <<text>>
        ELSE <<SubSeq(text, 1, i - 1)>> \o Pieces(Drop(text, i + Len(sep)), sep)

\* _split_text_with_regex(text, sep, keep_separator=True): each separator is
\* kept at the start of the piece after it; list(text) for the empty
\* separator; empty pieces dropped
SplitWithSeparator(text, sep) ==
    IF sep = <<>>
    THEN [i \in 1..Len(text) |-> <<text[i]>>]
    ELSE LET ps == Pieces(text, sep)
         IN  NonEmpty([i \in 1..Len(ps) |->
                          IF i = 1 THEN ps[1] ELSE sep \o ps[i]])

\* _join_docs: the joined and stripped text, as a list of zero or one chunk
JoinDocs(docs, sep) ==
    LET text == Strip(Join(docs, sep))
    IN  IF text = <<>> THEN <<>> ELSE <<text>>

\* the separator's share of the running total
SepCost(cur, sep, atLeast) == IF Len(cur) > atLeast THEN Len(sep) ELSE 0

\* the "keep on popping" loop of _merge_splits: drop pieces from the front of
\* the current window while it is longer than the overlap, or too long to take
\* the next piece of length n
RECURSIVE PopFront(_, _, _, _, _, _)
PopFront(cur, total, n, sep, size, overlap) ==
    IF \/ total > overlap
       \/ (total + n + SepCost(cur, sep, 0) > size /\ total > 0)
    THEN PopFront(Tail(cur), total - (Len(Head(cur)) + SepCost(cur, sep, 1)),
                  n, sep, size, overlap)
    ELSE [cur |-> cur, total |-> total]

\* _merge_splits: the loop over the pieces, with the chunks emitted so far,
\* the current window and its running length
RECURSIVE MergeLoop(_, _, _, _, _, _, _)
MergeLoop(splits, docs, cur, total, sep, size, overlap) ==
    IF splits = <<>> THEN docs \o JoinDocs(cur, sep)
    ELSE
      LET d == Head(splits)
          n == Len(d)
          full == total + n + SepCost(cur, sep, 0) > size
          emit == IF full /\ Len(cur) > 0 THEN JoinDocs(cur, sep) ELSE <<>>
          kept == IF full /\ Len(cur) > 0
                  THEN PopFront(cur, total, n, sep, size, overlap)
                  ELSE [cur |-> cur, total |-> total]
          cur2 == Append(kept.cur, d)
      IN  MergeLoop(Tail(splits), docs \o emit, cur2,
                    kept.total + n + SepCost(cur2, sep, 1), sep, size, overlap)

MergeSplits(splits, sep, size, overlap) ==
    MergeLoop(splits, <<>>, <<>>, 0, sep, size, overlap)

\* _split_text picks the first separator of the list that occurs in the text
\* (the empty separator always does); the result is its index
RECURSIVE PickSeparator(_, _, _)
PickSeparator(text, seps, i) ==
    IF i > Len(seps) THEN 0
    ELSE IF seps[i] = <<>> \/ Contains(text, seps[i]) THEN i
    ELSE PickSeparator(text, seps, i + 1)

\* _split_text(text, separators)
RECURSIVE SplitText(_, _, _, _)
RECURSIVE SplitLoop(_, _, _, _, _, _)

\* the loop of _split_text over the pieces: short pieces are collected (good)
\* and merged; a piece not shorter than the chunk size is split again with the
\* remaining separators, or kept whole when none remain
SplitLoop(splits, good, rest, final, size, overlap) ==
    IF splits = <<>>
    THEN IF good # <<>> THEN final \o MergeSplits(good, <<>>, size, overlap)
         ELSE final
    ELSE
      LET s == Head(splits)
      IN  IF Len(s) < size
          THEN SplitLoop(Tail(splits), Append(good, s), rest, final, size, overlap)
          ELSE
            LET merged == IF good # <<>>
                          THEN MergeSplits(good, <<>>, size, overlap) ELSE <<>>
                deeper == IF rest = <<>> THEN <<s>>
                          ELSE SplitText(s, rest, size, overlap)
            IN  SplitLoop(Tail(splits), <<>>, rest, final \o merged \o deeper,
                          size, overlap)

SplitText(text, seps, size, overlap) ==
    LET i    == PickSeparator(text, seps, 1)
        sep  == IF i = 0 THEN seps[Len(seps)] ELSE seps[i]
        rest == IF i = 0 \/ seps[i] = <<>> THEN <<>>
                ELSE SubSeq(seps, i + 1, Len(seps))
    IN  SplitLoop(SplitWithSeparator(text, sep), <<>>, rest, <<>>, size, overlap)

\* the chunks of every document, in order
RECURSIVE SplitAll(_, _, _)
SplitAll(docs, size, overlap) ==
    IF docs = <<>> THEN <<>>
    ELSE SplitText(Head(docs), Separators, size, overlap)
         \o SplitAll(Tail(docs), size, overlap)

\* DocumentProcessor.split_documents: the chunks of the documents' texts, each
\* stamped with its index (from 0) and the length of its content
SplitDocuments(docs, size, overlap) ==
    LET texts == SplitAll(docs, size, overlap)
    IN  [i \in 1..Len(texts) |->
            [page_content |-> texts[i],
             metadata |-> [chunk_id |-> i - 1, chunk_size |-> Len(texts[i])]]]

----------------------------------------------------------------------------
(* SplitSpec: the splitter applied to every bounded text and configuration. *)

SplitInit ==
    /\ spText \in TextsUpTo(MaxTextLen)
    /\ spSize \in 1..MaxChunkSize
    /\ spOverlap \in 0..MaxChunkSize
    /\ spChunks = <<>>
    /\ spPc = "ready"

\* DocumentProcessor(chunk_size, chunk_overlap): the splitter refuses an
\* overlap larger than the chunk size
ConstructRejects ==
    /\ spPc = "ready"
    /\ spOverlap > spSize
    /\ spPc' = "rejected"
    /\ UNCHANGED <<spText, spSize, spOverlap, spChunks>>

\* split_documents([Document(spText)])
SplitOne ==
    /\ spPc = "ready"
    /\ spOverlap <= spSize
    /\ spChunks' = SplitDocuments(<<spText>>, spSize, spOverlap)
    /\ spPc' = "done"
    /\ UNCHANGED <<spText, spSize, spOverlap>>

----------------------------------------------------------------------------
(* Values of the application model.                                         *)

\* DocumentProcessor.__init__ defaults
DefaultChunkSize == 1000
DefaultChunkOverlap == 200

NoFile == [name |-> "", ext |-> "", pages |-> <<>>, readable |-> FALSE]
NoResp == [none |-> TRUE]
NoOut  == [answer |-> "", sources |-> ""]
NoFeedback == [kind |-> "none", stage |-> "", chunks |-> 0, db_size |-> 0]

\* the uploads explored: a text file of one chunk, readable or not, a two-page
\* PDF with an upper-case extension, a markdown file with no extractable
\* text, and a file of an unsupported type
Files ==
    {[name |-> "a.txt", ext |-> ".txt", pages |-> << <<"a">> >>, readable |-> r]
        : r \in BOOLEAN}
    \cup {[name |-> "b.PDF", ext |-> ".PDF",
           pages |-> << <<"a">>, <<"a", SP, "a">> >>, readable |-> TRUE]}
    \cup {[name |-> "c.md", ext |-> ".md", pages |-> << <<SP, NL>> >>,
           readable |-> TRUE]}
    \cup {[name |-> "d.docx", ext |-> ".docx", pages |-> << <<"a">> >>,
           readable |-> TRUE]}

\* the questions explored, one of them blank
Queries == { <<"a">>, <<SP>> }

\* elapsed times a timer can measure: none, or some
Elapsed == {0, 1}

\* what the generation backend does with a request: it answers or refuses it
\* at some point ("pending"), or it never does ("silent")
BackendModes == {"pending", "silent"}

\* how a request that does not stay unanswered ends: 200 with a response
\* field, 200 without one, another status, a refused connection
ReplyKinds == {"ok", "malformed", "status", "refused"}

\* str.lower() on the extensions explored
Lower(ext) ==
    CASE ext \in {".PDF", ".Pdf"} -> ".pdf"
      [] ext \in {".TXT", ".Txt"} -> ".txt"
      [] ext \in {".MD", ".Md"}   -> ".md"
      [] ext = ".DOCX"            -> ".docx"
      [] OTHER                    -> ext

\* SentenceTransformer.encode for one text: deterministic, one fixed
\* dimension; the embedding is abstracted to a direction in 0..2
Encode(text) == Cardinality({i \in 1..Len(text) : text[i] = "a"}) % 3

\* cosine distance between two embeddings, in 0..2
Distance(e1, e2) == IF e1 >= e2 THEN e1 - e2 ELSE e2 - e1

Min(a, b) == IF a <= b THEN a ELSE b

----------------------------------------------------------------------------
(* DocumentProcessor.                                                       *)

\* a loader that accepts every extension as text
LoadDocumentAnyType(file) ==
    IF file.readable THEN [ok |-> TRUE, docs |-> file.pages, error |-> ""]
    ELSE [ok |-> FALSE, docs |-> <<>>, error |-> "load failed"]

\* load_document: the loader is chosen by the lower-cased extension; an
\* unsupported extension and a failing loader both raise
LoadDocument(file) ==
    IF Lower(file.ext) \notin {".pdf", ".txt", ".md"}
    THEN [ok |-> FALSE, docs |-> <<>>, error |-> "Unsupported file type"]
    ELSE IF ~file.readable
    THEN [ok |-> FALSE, docs |-> <<>>, error |-> "load failed"]
    ELSE [ok |-> TRUE, docs |-> file.pages, error |-> ""]

\* process_file: load, split, then stamp every chunk with the file's name and
\* extension; an error of load_document is raised again
ProcessFile(file, size, overlap) ==
    LET loaded == LoadDocument(file)
        chunks == SplitDocuments(loaded.docs, size, overlap)
    IN  IF ~loaded.ok THEN [ok |-> FALSE, chunks |-> <<>>, error |-> loaded.error]
        ELSE [ok |-> TRUE, error |-> "",
              chunks |-> [i \in 1..Len(chunks) |->
                  [page_content |-> chunks[i].page_content,
                   metadata |-> [chunk_id    |-> chunks[i].metadata.chunk_id,
                                 chunk_size  |-> chunks[i].metadata.chunk_size,
                                 source_file |-> file.name,
                                 file_type   |-> file.ext]]]]

\* RAGApp.__init__: self.doc_processor = DocumentProcessor(), with the default
\* chunk size and overlap; what its process_file returns for each upload
Processed ==
    [f \in Files |-> ProcessFile(f, DefaultChunkSize, DefaultChunkOverlap)]

----------------------------------------------------------------------------
(* VectorStore.                                                             *)

\* chromadb.PersistentClient(path="./data/chroma_db")
ChromaPath == "./data/chroma_db"

\* VectorStore.__init__(collection_name="documents")
DefaultCollectionName == "documents"

\* VectorStore(name): a client on the fixed path and get_or_create_collection
\* of the name; what the instance holds is the address of its collection
VectorStoreAt(name) == [path |-> ChromaPath, name |-> name]

\* RAGApp.__init__: self.vector_store = VectorStore()
AppStore == VectorStoreAt(DefaultCollectionName)

\* a ChatBot that names a collection of its own
BotStoreOwnCollection == VectorStoreAt("chat_documents")

\* ChatBot.__init__: self.vector_store = VectorStore(), an instance of its own
BotStore == VectorStoreAt(DefaultCollectionName)

\* the records an instance reads.  Clients of one process on one path share
\* one store, so an instance at the path and name RAGApp writes to reads the
\* collection RAGApp writes; any other name is a collection created empty,
\* which nothing writes to.
CollectionAt(store) == IF store = AppStore THEN collection ELSE <<>>

\* ids that restart at 1 in every call
IndexIds(n) == [i \in 1..n |-> i]

\* ids = [str(uuid.uuid4()) for _ in texts]: n ids never generated before
FreshIds(n) == [i \in 1..n |-> nextId + i]

\* the records add_documents hands to collection.add: text, metadata,
\* embedding and id of every chunk, in order
BuildBatch(chunks) ==
    LET ids == FreshIds(Len(chunks))
    IN  [i \in 1..Len(chunks) |->
            [id        |-> ids[i],
             document  |-> chunks[i].page_content,
             metadata  |-> chunks[i].metadata,
             embedding |-> Encode(chunks[i].page_content)]]

\* the ids stored in a collection
IdsOf(coll) == {coll[i].id : i \in 1..Len(coll)}

\* collection.add of a batch: the records are appended in order; a record
\* whose id the collection already holds is ignored
RECURSIVE CollectionAdd(_, _)
CollectionAdd(coll, batch) ==
    IF batch = <<>> THEN coll
    ELSE CollectionAdd(IF Head(batch).id \in IdsOf(coll) THEN coll
                       ELSE Append(coll, Head(batch)),
                       Tail(batch))

\* collection.query(query_embeddings, n_results = k): the positions of the
\* min(k, count) nearest records, nearest first.  The index gives no order
\* among records at the same distance, and no rule for which of them make the
\* cut: every choice is possible.
QueryResults(coll, qe, k) ==
    LET n == Len(coll)
        m == Min(k, n)
        d(p) == Distance(qe, coll[p].embedding)
    IN  {h \in [1..m -> 1..n] :
            /\ \A i, j \in 1..m : i # j => h[i] # h[j]
            /\ \A i \in 1..(m - 1) : d(h[i]) <= d(h[i + 1])
            /\ \A p \in 1..n : (\A i \in 1..m : h[i] # p) =>
                                  \A i \in 1..m : d(h[i]) <= d(p)}

\* the similarity reported without converting the distance
SimilarityRaw(distance) == distance

\* similarity = 1 - results['distances'][0][i]
Similarity(distance) == 1 - distance

\* a formatting loop that stops one result short
FormatResultsShort(coll, qe, hits, searchTime) ==
    [i \in 1..(Len(hits) - 1) |->
        [content     |-> coll[hits[i]].document,
         metadata    |-> coll[hits[i]].metadata,
         similarity  |-> Similarity(Distance(qe, coll[hits[i]].embedding)),
         search_time |-> searchTime]]

\* the formatting loop of search: one result per returned record, in the
\* order the collection returned them
FormatResults(coll, qe, hits, searchTime) ==
    [i \in 1..Len(hits) |->
        [content     |-> coll[hits[i]].document,
         metadata    |-> coll[hits[i]].metadata,
         similarity  |-> Similarity(Distance(qe, coll[hits[i]].embedding)),
         search_time |-> searchTime]]

----------------------------------------------------------------------------
(* ChatBot.                                                                 *)

ModelName == "mistral"
NoDocumentsAnswer == "No relevant documents found in the database."

HttpError(code) == IF code = 404 THEN "Error: HTTP 404" ELSE "Error: HTTP 500"

ConnectError(outcome) ==
    IF outcome = "malformed" THEN "Error connecting to Ollama: 'response'"
    ELSE IF outcome = "timeout" THEN "Error connecting to Ollama: Read timed out."
    ELSE "Error connecting to Ollama: Connection refused"

\* a generate_response that reads the response field with a default
GenerateResponseLenient(outcome, code, t) ==
    IF outcome \in {"ok", "malformed"}
    THEN [response |-> IF outcome = "ok" THEN "generated answer" ELSE "",
          generation_time |-> t, model_used |-> ModelName, success |-> TRUE]
    ELSE IF outcome = "status"
    THEN [response |-> HttpError(code), generation_time |-> t, success |-> FALSE]
    ELSE [response |-> ConnectError(outcome), generation_time |-> t,
          success |-> FALSE]

\* generate_response, by what requests.post did: a 200 with a response field
\* ("ok") is the answer; another status is an HTTP error; a 200 without the
\* field ("malformed": KeyError), a refused connection and a timeout are
\* exceptions, all caught by the same handler
GenerateResponse(outcome, code, t) ==
    IF outcome = "ok"
    THEN [response |-> "generated answer", generation_time |-> t,
          model_used |-> ModelName, success |-> TRUE]
    ELSE IF outcome = "status"
    THEN [response |-> HttpError(code), generation_time |-> t, success |-> FALSE]
    ELSE [response |-> ConnectError(outcome), generation_time |-> t,
          success |-> FALSE]

\* what chat returns when search found nothing
NoDocumentsResult(retrieval) ==
    [answer |-> NoDocumentsAnswer, sources |-> <<>>, retrieval_time |-> retrieval,
     generation_time |-> 0, total_time |-> retrieval]

\* what chat returns after generate_response
ChatResult(docs, retrieval, gen) ==
    [answer          |-> gen.response,
     sources         |-> docs,
     retrieval_time  |-> retrieval,
     generation_time |-> gen.generation_time,
     total_time      |-> retrieval + gen.generation_time,
     model_used      |-> ModelName,
     success         |-> gen.success]

----------------------------------------------------------------------------
(* RAGApp.upload_and_process_file, in steps: everything up to                *)
(* collection.add, collection.add itself, and the count that follows it.     *)
(* Each of the three can raise, and upload_and_process_file turns every      *)
(* exception into an error message.                                          *)

Feedback(kind, stage, chunks, size) ==
    [kind |-> kind, stage |-> stage, chunks |-> chunks, db_size |-> size]

\* upload_and_process_file(file) up to the call of collection.add: process the
\* file, embed the chunks (encodes: the embedding model did not fail) and
\* generate the ids.  Every exception ends the call with an error message.
UploadStart(file, encodes) ==
    /\ upPc = "idle"
    /\ upFile' = file
    /\ LET r == Processed[file]
       IN  IF file = NoFile
           THEN /\ upFeedback' = Feedback("no_file", "", 0, 0)
                /\ UNCHANGED <<upPc, upBatch, upBefore, batches, nextId>>
           ELSE IF ~r.ok
           THEN /\ upFeedback' = Feedback("error", "load", 0, 0)
                /\ UNCHANGED <<upPc, upBatch, upBefore, batches, nextId>>
           ELSE IF ~encodes
           THEN /\ upFeedback' = Feedback("error", "embedding", 0, 0)
                /\ UNCHANGED <<upPc, upBatch, upBefore, batches, nextId>>
           ELSE /\ nextId + Len(r.chunks) <= MaxIds
                /\ upBatch' = BuildBatch(r.chunks)
                /\ nextId' = nextId + Len(r.chunks)
                /\ batches' = IF r.chunks = <<>> THEN batches
                               ELSE Append(batches, IdsOf(upBatch'))
                /\ upBefore' = Len(collection)
                /\ upFeedback' = NoFeedback
                /\ upPc' = "adding"
    /\ UNCHANGED <<collection, upWritten, addedTotal, strays, chVars, splitVars>>

\* self.collection.add(embeddings, documents, metadatas, ids) at work: one
\* more record of the batch is in the collection.  add_documents wraps the
\* call in no transaction and no lock, so a search can run between two
\* records.  The last record is written by the step that ends the call.
UploadWrite ==
    /\ upPc = "adding"
    /\ upWritten + 1 < Len(upBatch)
    /\ collection' = CollectionAdd(collection, <<upBatch[upWritten + 1]>>)
    /\ upWritten' = upWritten + 1
    /\ UNCHANGED <<upPc, upFile, upBatch, upFeedback, upBefore, addedTotal,
                   strays, batches, nextId, chVars, splitVars>>

\* self.collection.add ends.  It returns with the rest of the batch written
\* (stored), or it raises: add_documents has no handler and no rollback, so
\* the records written so far stay, and upload_and_process_file turns the
\* exception into an error message that names no record.  A call that raises
\* with the whole batch written leaves the store as a failed count does.
UploadCommit(stored) ==
    /\ upPc = "adding"
    /\ IF stored
       THEN /\ collection' = CollectionAdd(collection,
                                 SubSeq(upBatch, upWritten + 1, Len(upBatch)))
            /\ addedTotal' = addedTotal + Len(upBatch)
            /\ upPc' = "counting"
            /\ UNCHANGED <<upFeedback, strays, upBatch>>
       ELSE /\ upFeedback' = Feedback("error", "storage", 0, 0)
            /\ strays' = strays + upWritten
            /\ upPc' = "idle"
            /\ upBatch' = <<>>
            /\ UNCHANGED <<collection, addedTotal>>
    /\ upWritten' = 0
    /\ UNCHANGED <<upFile, upBefore, batches, nextId, chVars, splitVars>>

\* add_documents builds its result with db_size = self.collection.count().
\* When the count answers (counted) the call returns and the upload reports
\* total_docs and db_size.  When it raises, the exception leaves add_documents
\* after the batch was committed and the upload ends with an error message:
\* the records stay in the collection.
UploadCount(counted) ==
    /\ upPc = "counting"
    /\ upFeedback' = IF counted
                     THEN Feedback("ok", "", Len(upBatch), Len(collection))
                     ELSE Feedback("error", "count", 0, 0)
    /\ upPc' = "idle"
    /\ upBatch' = <<>>
    /\ UNCHANGED <<upFile, upWritten, upBefore, addedTotal, strays,
                   batches, collection, nextId, chVars, splitVars>>

----------------------------------------------------------------------------
(* RAGApp.ask_question and ChatBot.chat, in steps: the query embedding, the  *)
(* collection query with the rest of search and the prompt, the backend's    *)
(* reply or the request timeout, and ask_question's formatting.              *)

\* ask_question(question, k) up to the collection query: a blank question is
\* answered at once; otherwise chat starts and search embeds the query
\* (encodes: the embedding model did not fail).  Nothing in chat catches an
\* exception of search.
AskQuestion(question, k, encodes) ==
    /\ chPc = "idle"
    /\ IF Strip(question) = <<>>
       THEN /\ askOut' = [answer |-> "Please enter a question.",
                          sources |-> "No sources available."]
            /\ UNCHANGED <<chPc, chQuery, chK, chDocs, chHits, chN, chErr,
                           chPosted, backend, chRetrieval, resp>>
       ELSE /\ chQuery' = question
            /\ chK' = k
            /\ chDocs' = <<>>
            /\ chHits' = <<>>
            /\ chN' = 0
            /\ chPosted' = FALSE
            /\ chRetrieval' = 0
            /\ resp' = NoResp
            /\ askOut' = NoOut
            /\ chErr' = IF encodes THEN "none" ELSE "embedding"
            /\ chPc' = IF encodes THEN "querying" ELSE "raised"
            /\ UNCHANGED backend
    /\ UNCHANGED <<collection, nextId, upVars, splitVars>>

\* search from collection.query on, and chat up to the request to the
\* backend: the query reads the collection of ChatBot's instance as it is now (answers: the store
\* did not fail); no result is the short-circuit return; otherwise the prompt
\* is built and posted, and the backend will answer or stay silent.  The
\* timers of search and of chat bracket the same call and get one reading.
SearchQuery(answers, retrieval, mode) ==
    /\ chPc = "querying"
    /\ chN' = Len(CollectionAt(BotStore))
    /\ IF ~answers
       THEN /\ chErr' = "query"
            /\ chPc' = "raised"
            /\ UNCHANGED <<chDocs, chHits, chPosted, backend, chRetrieval, resp>>
       ELSE \E h \in QueryResults(CollectionAt(BotStore), Encode(chQuery), chK) :
            LET docs == FormatResults(CollectionAt(BotStore), Encode(chQuery), h,
                                      retrieval)
            IN  /\ chHits' = h
                /\ chDocs' = docs
                /\ chRetrieval' = retrieval
                /\ UNCHANGED chErr
                /\ IF docs = <<>>
                   THEN /\ resp' = NoDocumentsResult(retrieval)
                        /\ chPc' = "returned"
                        /\ UNCHANGED <<chPosted, backend>>
                   ELSE /\ chPosted' = TRUE
                        /\ backend' = mode
                        /\ chPc' = "generating"
                        /\ UNCHANGED resp
    /\ UNCHANGED <<chQuery, chK, askOut, collection, nextId, upVars, splitVars>>

\* the backend answers, or refuses the connection: generate_response returns
\* and chat returns its result
GenerateReply(kind, code, t) ==
    /\ chPc = "generating"
    /\ backend = "pending"
    /\ backend' = kind
    /\ resp' = ChatResult(chDocs, chRetrieval, GenerateResponse(kind, code, t))
    /\ chPc' = "returned"
    /\ UNCHANGED <<chQuery, chK, chDocs, chHits, chN, chErr, chPosted,
                   chRetrieval, askOut, collection, nextId, upVars, splitVars>>

\* a request posted without a timeout waits for as long as the backend is silent
GenerateNoTimeout(t) ==
    /\ chPc = "generating"
    /\ backend = "silent"
    /\ FALSE
    /\ UNCHANGED vars

\* requests.post(..., timeout=60): the backend stays silent, the timeout
\* raises, generate_response catches it and chat returns its result
GenerateTimeout(t) ==
    /\ chPc = "generating"
    /\ backend = "silent"
    /\ resp' = ChatResult(chDocs, chRetrieval, GenerateResponse("timeout", 0, t))
    /\ chPc' = "returned"
    /\ UNCHANGED <<chQuery, chK, chDocs, chHits, chN, chErr, chPosted, backend,
                   chRetrieval, askOut, collection, nextId, upVars, splitVars>>

\* ask_question after chat: an exception out of chat, or out of reading
\* response['success'], becomes an error message; a failed response is
\* reported as an error; a successful one is formatted with its sources.
\* The call's locals are gone when it returns.
AskFinish ==
    /\ chPc \in {"returned", "raised"}
    /\ askOut' =
         IF chPc = "raised"
         THEN [answer |-> "Error: search failed", sources |-> "Error occurred"]
         ELSE IF "success" \notin DOMAIN resp
         THEN [answer |-> "Error: 'success'", sources |-> "Error occurred"]
         ELSE IF ~resp.success
         THEN [answer |-> "Error: " \o resp.answer, sources |-> "No sources"]
         ELSE [answer |-> resp.answer,
               sources |-> IF resp.sources # <<>> THEN "Sources Used"
                           ELSE "No sources found."]
    /\ chPc' = "idle"
    /\ chQuery' = <<>>
    /\ chK' = 1
    /\ chDocs' = <<>>
    /\ chHits' = <<>>
    /\ chN' = 0
    /\ chErr' = "none"
    /\ chPosted' = FALSE
    /\ backend' = "pending"
    /\ chRetrieval' = 0
    /\ resp' = NoResp
    /\ UNCHANGED <<collection, nextId, upVars, splitVars>>

----------------------------------------------------------------------------
(* The specifications.                                                      *)

\* the application after construction: an empty collection, both handlers idle
AppInit ==
    /\ collection = <<>>
    /\ nextId = 0
    /\ upPc = "idle"
    /\ upFile = NoFile
    /\ upBatch = <<>>
    /\ upFeedback = NoFeedback
    /\ upWritten = 0
    /\ upBefore = 0
    /\ strays = 0
    /\ addedTotal = 0
    /\ batches = <<>>
    /\ chPc = "idle"
    /\ chQuery = <<>>
    /\ chK = 1
    /\ chDocs = <<>>
    /\ chHits = <<>>
    /\ chN = 0
    /\ chErr = "none"
    /\ chPosted = FALSE
    /\ backend = "pending"
    /\ chRetrieval = 0
    /\ resp = NoResp
    /\ askOut = NoOut

appVars == <<collection, nextId, upVars, chVars>>

Init ==
    /\ AppInit
    /\ spText = <<>>
    /\ spSize = DefaultChunkSize
    /\ spOverlap = DefaultChunkOverlap
    /\ spChunks = <<>>
    /\ spPc = "ready"

Upload    == \E f \in Files \cup {NoFile}, e \in BOOLEAN : UploadStart(f, e)
Commit    == \E ok \in BOOLEAN : UploadCommit(ok)
Count     == \E ok \in BOOLEAN : UploadCount(ok)
Ask       == \E q \in Queries, k \in 1..MaxK, e \in BOOLEAN : AskQuestion(q, k, e)
\* a search embeds the query and asks the index, and a timeout ends a wait:
\* both take some time
Search    == \E ok \in BOOLEAN, tr \in Elapsed \ {0}, m \in BackendModes :
                 SearchQuery(ok, tr, m)
Reply     == \E r \in ReplyKinds, c \in {404, 500}, t \in Elapsed :
                 GenerateReply(r, c, t)
Timeout   == \E t \in Elapsed \ {0} : GenerateTimeout(t)

Next ==
    \/ Upload
    \/ UploadWrite
    \/ Commit
    \/ Count
    \/ Ask
    \/ Search
    \/ Reply
    \/ Timeout
    \/ AskFinish

Spec == Init /\ [][Next]_vars

\* a request in flight does not wait for ever without a cause: a backend that
\* answers or refuses is heard, and the timeout of a request fires
FairSpec ==
    /\ Spec
    /\ WF_vars(Reply)
    /\ WF_vars(Timeout)

SplitStart == SplitInit /\ AppInit

SplitNext == (ConstructRejects \/ SplitOne) /\ UNCHANGED appVars

SplitSpec == SplitStart /\ [][SplitNext]_vars

----------------------------------------------------------------------------
(* Claims.                                                                   *)

\* the response of a returned chat reports failure with a message
FailedResponse ==
    /\ "success" \in DOMAIN resp
    /\ resp.success = FALSE
    /\ resp.answer # ""

\* C1: when retrieval returned documents and the backend call fails (refused
\* connection, timeout, non-200 status, or a 200 without the response field),
\* chat returns, and never raises, a response with success = false and a
\* non-empty message as answer.
C1_BackendFailureIsFailedResponse ==
    /\ chPosted => chPc # "raised"
    /\ (chPc = "returned" /\ chPosted /\ backend # "ok") => FailedResponse
    /\ (chPc = "returned" /\ chPosted) =>
          backend \in {"ok", "malformed", "status", "refused", "silent"}

\* C1 witness: a 200 reply without the response field came back as a failure
C1_Witness ==
    /\ chPc = "returned"
    /\ chPosted
    /\ backend = "malformed"
    /\ FailedResponse

\* C2: when retrieval returns no documents, chat returns success = true,
\* generation_time = 0, no sources and the fixed no-documents answer, and the
\* backend is not called.
C2_NoDocumentsIsSuccess ==
    (chPc = "returned" /\ chDocs = <<>>) =>
        /\ ~chPosted
        /\ resp.sources = <<>>
        /\ resp.answer = NoDocumentsAnswer
        /\ resp.generation_time = 0
        /\ "success" \in DOMAIN resp
        /\ resp.success = TRUE

\* C3: when the retrieval stage fails (the query embedding or the collection
\* query raises), chat does not raise: it returns a response with
\* success = false.
C3_RetrievalFailureCaptured ==
    chErr # "none" =>
        /\ chPc = "returned"
        /\ "success" \in DOMAIN resp
        /\ resp.success = FALSE

\* the ids the collection held when the query of the current chat ran
IdsSeen == {collection[p].id : p \in 1..Min(chN, Len(collection))}

\* C4: every add_documents call commits all of its batch or none of it: in
\* every state, also after a storage failure and while a search runs beside
\* the add, the collection holds every record of a batch or none, and every
\* record a search returned belongs to a batch the search saw whole.  The
\* code does not establish it: a collection.add that raises part of the way,
\* or a search that runs during it, finds part of a batch.
C4_BatchesAllOrNothing ==
    /\ \A b \in 1..Len(batches) :
          \/ batches[b] \cap IdsOf(collection) = {}
          \/ batches[b] \subseteq IdsOf(collection)
    /\ \A i \in 1..Len(chHits) : \A b \in 1..Len(batches) :
          collection[chHits[i]].id \in batches[b] => batches[b] \subseteq IdsSeen

\* C5: for k >= 1 and a collection of n records, search returns exactly
\* min(k, n) results: none when n = 0, all n when n < k, never padded.
C5_SearchReturnsMinKN ==
    chPc \in {"generating", "returned"} =>
        /\ Len(chDocs) = Min(chK, chN)
        /\ chPc = "returned" => Len(resp.sources) = Min(chK, chN)

\* C5 witness: a search for more records than the collection holds returned
\* all of them
C5_Witness ==
    /\ chPc = "generating"
    /\ chN >= 1
    /\ chN < chK
    /\ Len(chDocs) = chN

\* a sequence of search results is ordered by non-increasing similarity
NonIncreasing(docs) ==
    \A i \in 1..(Len(docs) - 1) : docs[i].similarity >= docs[i + 1].similarity

\* C6, as amended: the results of search, and the sources of every response,
\* are ordered by non-increasing similarity.
C6_SourcesNonIncreasing ==
    /\ NonIncreasing(chDocs)
    /\ (chPc = "returned" /\ chPosted) => NonIncreasing(resp.sources)

\* C6 witness: a response with two sources of different similarity
C6_Witness ==
    /\ chPc = "returned"
    /\ chPosted
    /\ Len(resp.sources) >= 2
    /\ resp.sources[1].similarity > resp.sources[2].similarity

\* C6, as claimed: the results are ordered by non-increasing similarity and
\* records of equal similarity appear in insertion order.
C6_StableTieBreak ==
    /\ NonIncreasing(chDocs)
    /\ \A i \in 1..(Len(chDocs) - 1) :
          chDocs[i].similarity = chDocs[i + 1].similarity
              => chHits[i] < chHits[i + 1]

\* a file load_document rejects: unsupported extension, or the loader fails
Rejected(file) ==
    /\ file # NoFile
    /\ \/ Lower(file.ext) \notin {".pdf", ".txt", ".md"}
       \/ ~file.readable

\* C7: an upload of a file with an unsupported extension, or whose load
\* fails, ends before add_documents is called: the collection is unchanged,
\* no batch is built, and the caller gets the error.
C7_RejectedUploadLeavesStore ==
    [][(upPc = "idle" /\ Rejected(upFile')) =>
          /\ collection' = collection
          /\ batches' = batches
          /\ nextId' = nextId
          /\ upPc' = "idle"
          /\ upFeedback'.kind = "error"
          /\ upFeedback'.stage = "load"]_vars

\* C7 witness: an unsupported file was refused with records in the collection
C7_Witness ==
    /\ upPc = "idle"
    /\ upFile.ext = ".docx"
    /\ upFeedback.kind = "error"
    /\ Len(collection) > 0

\* C8: a chat that has called the backend returns; when the backend never
\* answers, the request timeout fires and the chat returns a failure.
C8_SilentBackendTimesOut ==
    (chPc = "generating")
        ~> (chPc = "returned" /\ (backend = "silent" => FailedResponse))

\* C8 witness: a chat whose backend never answered has returned a failure
C8_Witness ==
    /\ chPc = "returned"
    /\ backend = "silent"
    /\ FailedResponse

\* C9: after any sequence of successful add_documents calls the collection
\* holds as many records as the calls added, the ids are pairwise distinct,
\* and a call reports db_size = size before the call + its batch size; text
\* equal to a stored chunk makes a new record.  Every record is accounted
\* for: the batches of the calls whose collection.add returned, what the
\* running collection.add has written, and what the calls that raised left;
\* in a run of successful calls the last is 0 and so is the second when no
\* call is running.
C9_CountIsSumOfBatches ==
    /\ Len(collection) = addedTotal + upWritten + strays
    /\ (strays = 0 /\ upPc # "adding") => Len(collection) = addedTotal
    /\ \A i, j \in 1..Len(collection) :
          i # j => collection[i].id # collection[j].id
    /\ upFeedback.kind = "ok" =>
          upFeedback.db_size = upBefore + upFeedback.chunks

\* C9 witness: a second upload of the same text was reported, and the
\* collection holds two records with that text
C9_Witness ==
    /\ upPc = "idle"
    /\ strays = 0
    /\ upFeedback.kind = "ok"
    /\ upFeedback.chunks >= 1
    /\ upBefore >= 1
    /\ \E i, j \in 1..Len(collection) :
          i < j /\ collection[i].document = collection[j].document

\* C10: with overlap < chunk size, every chunk has non-empty content of
\* length at most the chunk size, also when no separator fits and the text
\* is cut character by character.
C10_ChunkLengthWithinSize ==
    (spPc = "done" /\ spOverlap < spSize) =>
        \A i \in 1..Len(spChunks) :
            /\ Len(spChunks[i].page_content) >= 1
            /\ Len(spChunks[i].page_content) <= spSize
            /\ spChunks[i].metadata.chunk_size = Len(spChunks[i].page_content)

\* C10 witness: a text without any separator, longer than the chunk size,
\* was cut into several chunks
C10_Witness ==
    /\ spPc = "done"
    /\ spOverlap < spSize
    /\ spOverlap >= 1
    /\ Len(spText) > spSize
    /\ \A i \in 1..Len(spText) : spText[i] = "a"
    /\ Len(spChunks) >= 2

\* C11: RAGApp adds through its own VectorStore instance and ChatBot searches
\* through another instance on the same named collection: the query of a
\* search sees every record committed so far, hence every record committed
\* before the search started; it returns min(k, records) sources, and with
\* at least one record committed the chat does not take the no-documents
\* return.
C11_CommittedRecordsVisibleToChat ==
    [][(chPc = "querying" /\ chPc' \in {"generating", "returned"}) =>
          /\ chN' = Len(collection)
          /\ Len(chDocs') = Min(chK, Len(collection))
          /\ \A i \in 1..Len(chDocs') :
                chDocs'[i].content = collection[chHits'[i]].document
          /\ Len(collection) >= 1 =>
                (chPc' = "generating" /\ chPosted' /\ resp' = NoResp)]_vars

\* C11 witness: after a reported upload, a chat asking for more sources than
\* the collection holds has retrieved every record and called the backend
C11_Witness ==
    /\ upPc = "idle"
    /\ upFeedback.kind = "ok"
    /\ upFeedback.chunks >= 1
    /\ chPc = "generating"
    /\ chK >= Len(collection)
    /\ Len(chDocs) = Len(collection)
    /\ chN = upFeedback.db_size

====
